---- MODULE Spec2Model ----
(***************************************************************************)
(* Model of the NGAS archive command plug-ins                              *)
(*   ngamsCmd_MIRRARCHIVE.py  (mirror archive, resumable fetch)            *)
(*   ngamsCmd_CARCHIVE.py     (container archive, multi-file requests)     *)
(*                                                                         *)
(* SpecMirror   : one mirror request, attempted until it stops being       *)
(*                resumable.                                               *)
(* SpecCArchive : one container-archive (multi-file) request.              *)
(* SpecVolume   : the helper functions of the mirror plug-in.              *)
(* Spec         : a server that takes one request of either kind.          *)
(***************************************************************************)
EXTENDS Integers, Sequences, FiniteSets, TLC

\* ------------------------------------------------------------------ bounds
\* longest remote file, in bytes
MaxLen == 3
\* greatest byte value of the modelled alphabet (bytes are 0..MaxByte)
MaxByte == 1
\* greatest number of attempts (handleCmd invocations) on one mirror request
MaxAttempts == 3
\* greatest number of containers in the tree of one multi-file request
MaxContainers == 3
\* greatest number of files in one multi-file request
MaxFiles == 2
\* greatest number of volumes in the catalog table ngas_disks
MaxVolumes == 2
\* greatest available_mb of a volume
MaxAvail == 1
\* greatest number of calls of updateDiskInfo
MaxCalls == 2

\* ------------------------------------------------------- mirror: variables
VARIABLES
    srcData,        \* content of the remote file being mirrored
    stgFile,        \* staging file on disk: [exists, data]
    finalFile,      \* file at resDapi.getCompleteFilename(): [exists, data]
    startByte,      \* local of __handleCmd, lines 180-185
    bytesReceived,  \* reqPropsObj.getBytesReceived() of the current attempt
    fetchErr,       \* the exception raised by the fetch of the last attempt
    checksum,       \* local of __handleCmd, line 201
    mpc,            \* position of the mirror handler
    outcome,        \* how the last attempt ended (exception type or Success)
    outcomes,       \* history: the outcomes of all ended attempts, in order
    attempts,       \* number of attempts started
    ngas_files,     \* catalog table ngas_files (rows inserted at line 257)
    ngas_disks,     \* catalog row of the target volume in ngas_disks
    diskUpdates,    \* history: number of executed UPDATEs of ngas_disks
    lowSpace        \* the volume's free space when the commit ended, against
                    \* getFreeSpaceDiskChangeMb(): "below", "above", "unknown" before

\* ---------------------------------------------- container archive: variables
VARIABLES
    reqBody,          \* the request body: [parent, files] (container tree, file parts)
    uriVersion,       \* file_version given in the request URI, 0 when absent
    targSlot,         \* targDiskInfo.getSlotId(), 0 before a volume is selected
    resDapi,          \* the resDapi of the current loop iteration, Null before
    sizesWritten,     \* keys of containerSizes the loop of lines 356-357 has done
    srvState,         \* srvObj.getState()
    srvSubState,      \* srvObj.getSubState()
    cpc,              \* position of the container-archive handler
    stageErr,         \* history: how saveInStagingFile ended ("none" before it ran)
    staged,           \* indexes of the files lying in the staging area
    stored,           \* indexes of the files moved to their final destination
    rootContainer,    \* stagingInfo[1]: root node of the in-memory tree, 0 when unset
    fileDataList,     \* stagingInfo[2]: sequence of [container, fileId, size, crc]
    containerId,      \* container.getContainerId() of each in-memory container
    ngas_containers,  \* catalog table ngas_containers, rows in creation order
    containerFiles,   \* catalog relation file-to-container: <<containerId, fileId>>
    containerSizes,   \* local dict of handleCmd, line 272
    idx,              \* number of items of fileDataList the loop has finished
    resDapiList,      \* local list of handleCmd, line 270
    subscriptions,    \* (fileId, fileVersion) pairs given to addSubscriptionInfo
    replied,          \* srvObj.ingestReply was called with NGAMS_SUCCESS
    dbLog             \* history: names of the catalog calls made, in order

cvars == << reqBody, uriVersion, targSlot, resDapi, sizesWritten, srvState, srvSubState, cpc, stageErr, staged,
            stored, rootContainer, fileDataList, containerId, ngas_containers,
            containerFiles, containerSizes, idx, resDapiList, subscriptions,
            replied, dbLog >>

\* history: the call whose exception ended the current request or attempt,
\* "none" while none has
VARIABLE failedAt

\* ------------------------------------------- disk resource lock: variables
VARIABLES
    sem,       \* permits left of each slot's disk resource lock
    lockLog    \* history: the calls the request made on the lock, in order

lvars == << sem, lockLog >>

\* ------------------------------------------- mirror volume selector: variables
VARIABLES
    diskTable,   \* catalog table ngas_disks: the rows of all volumes
    target       \* what getTargetVolume did: NotCalled, a volume, None, or an exception

vvars == << diskTable, target >>

mvars == << srcData, stgFile, finalFile, startByte, bytesReceived, fetchErr,
            checksum, mpc, outcome, outcomes, attempts, ngas_files,
            ngas_disks, diskUpdates, lowSpace >>

\* the slots of the volumes a request may target
Slots == {1, 2}

\* ------------------------------------------------------------ mirror: data
Bytes == 0..MaxByte

RECURSIVE SeqsUpTo(_, _)
SeqsUpTo(S, n) ==
    IF n = 0 THEN { <<>> }
    ELSE LET shorter == SeqsUpTo(S, n - 1)
         IN  shorter \cup { Append(s, b) : s \in { t \in shorter : Len(t) = n - 1 }, b \in S }

FileContents == SeqsUpTo(Bytes, MaxLen)

NoFile == [exists |-> FALSE, data |-> <<>>]

IsPrefix(s, t) == Len(s) <= Len(t) /\ SubSeq(t, 1, Len(s)) = s

\* the request's identity, reqPropsObj.fileinfo (lines 190-191)
FileId == "f"
FileVersion == 1
DiskId == "disk1"

\* errno.ENOSPC, the literal tested at line 207
ENOSPC == 28

\* The exceptions the fetch can raise.  FailedDownloadException and
\* PostponeException are plain exception classes without an errno attribute,
\* so getattr(e, 'errno', 0) reads 0 for them; a generic exception carries no
\* errno (0), ENOSPC or another errno (5, EIO).
FetchErrors ==
    { [type |-> "FailedDownloadException", errno |-> 0],
      [type |-> "PostponeException", errno |-> 0],
      [type |-> "Exception", errno |-> 0],
      [type |-> "Exception", errno |-> 5],
      [type |-> "Exception", errno |-> ENOSPC] }

NoErr == [type |-> "none", errno |-> 0]

\* Checksum Accumulator: one step of the incremental checksum over a stream
\* (order- and length-sensitive fold, standing for binascii.crc32(buff, crc)).
CrcStep(crc, b) == (crc * 31 + b + 1) % 65521

RECURSIVE Crc(_, _)
Crc(data, crc) ==
    IF data = <<>> THEN crc
    ELSE Crc(Tail(data), CrcStep(crc, Head(data)))

\* os.path.exists / os.path.getsize, lines 180-185
StartByteAlwaysZero(f) == 0
StartByteOf(f) == IF ~f.exists THEN 0 ELSE Len(f.data)

\* Resumable Fetch (ngamsCmd_HTTPFETCH.saveToFile / ngamsCmd_RSYNCFETCH.saveToFile):
\* stream n bytes of the source from offset start into the staging file,
\* truncate-and-create at offset 0, append otherwise.
FetchWrite(f, src, start, n) ==
    [exists |-> TRUE,
     data   |-> (IF start = 0 THEN <<>> ELSE f.data) \o SubSeq(src, start + 1, start + n)]

\* the checksum the fetch returns: over the bytes already on disk plus the
\* newly streamed bytes
FetchChecksum(f, src, start, n) == Crc(FetchWrite(f, src, start, n).data, 0)

\* number of bytes the source still has after offset start
Remaining(src, start) == IF start >= Len(src) THEN 0 ELSE Len(src) - start

\* stagingInfo[1], line 201 (stagingInfo = <<ioTime, checksum>>)
ChecksumOfWrongIndex(stagingInfo) == stagingInfo[1]
ChecksumOf(stagingInfo) == stagingInfo[2]

\* the except clauses of __handleCmd, lines 202-220: the exception that
\* leaves the handler for the exception e raised by the fetch
ClassifyNoSpaceTest(e, received) ==
    IF e.type = "FailedDownloadException" THEN "FailedDownloadException"
    ELSE IF e.type = "PostponeException" THEN "PostponeException"
    ELSE IF received >= 0 THEN "PostponeException"
    ELSE "FailedDownloadException"
ClassifyStrict(e, received) ==
    IF e.type = "FailedDownloadException" THEN "FailedDownloadException"
    ELSE IF e.type = "PostponeException" THEN "PostponeException"
    ELSE IF e.errno = ENOSPC THEN "FailedDownloadException"
    ELSE IF received > 0 THEN "PostponeException"
    ELSE "FailedDownloadException"
Classify(e, received) ==
    IF e.type = "FailedDownloadException" THEN "FailedDownloadException"
    ELSE IF e.type = "PostponeException" THEN "PostponeException"
    ELSE IF e.errno = ENOSPC THEN "FailedDownloadException"
    ELSE IF received >= 0 THEN "PostponeException"
    ELSE "FailedDownloadException"

\* the caller's retry policy: an attempt is repeated on the same staging
\* path after a resumable outcome only
CallerRetries(o) == o = "PostponeException"

\* Python None, and str(None)
Null == [kind |-> "null", n |-> 0]
StrNone == [kind |-> "str", n |-> 0]

\* the target volume's row before the request (counters in bytes)
InitDisk == [bytes_stored |-> 0, available_mb |-> 64, number_of_files |-> 0, completed |-> 0]

\* ---------------------------------------------------------- mirror: actions
\* the mirror handler before its first invocation
MirrIdle ==
    /\ stgFile = NoFile
    /\ finalFile = NoFile
    /\ startByte = 0
    /\ bytesReceived = 0
    /\ fetchErr = NoErr
    /\ checksum = 0
    /\ outcome = "none"
    /\ outcomes = <<>>
    /\ attempts = 0

\* the catalog before the request
CatalogEmpty ==
    /\ ngas_files = {}
    /\ ngas_disks = InitDisk
    /\ diskUpdates = 0
    /\ lowSpace = "unknown"
    /\ ngas_containers = <<>>
    /\ containerFiles = {}
    /\ dbLog = <<>>

\* getTargetVolume was not called
NotCalled == [kind |-> "notCalled", volume |-> 0]
VolumeIdle == diskTable = <<>> /\ target = NotCalled

\* no concurrent request: every per-request position is off, every lock free
LockIdle ==
    /\ sem = [s \in Slots |-> 1]
    /\ lockLog = <<>>

\* the container-archive handler before its invocation, without a request
CArchIdle ==
    /\ reqBody = [parent |-> << 0 >>, files |-> <<>>]
    /\ uriVersion = 0
    /\ targSlot = 0
    /\ resDapi = Null
    /\ sizesWritten = {}
    /\ srvState = "ONLINE"
    /\ srvSubState = "IDLE"
    /\ stageErr = "none"
    /\ staged = {}
    /\ stored = {}
    /\ rootContainer = 0
    /\ fileDataList = <<>>
    /\ containerId = << >>
    /\ containerSizes = << >>
    /\ idx = 0
    /\ resDapiList = <<>>
    /\ subscriptions = <<>>
    /\ replied = FALSE

MInit ==
    /\ LockIdle
    /\ VolumeIdle
    /\ srcData \in FileContents
    /\ MirrIdle
    /\ mpc = "idle"
    /\ CatalogEmpty
    /\ CArchIdle
    /\ cpc = "off"
    /\ failedAt = "none"

\* the attempt ends with exception (or Success) o
EndAttempt(o) ==
    /\ mpc' = "done"
    /\ outcome' = o
    /\ outcomes' = Append(outcomes, o)

\* handleCmd and __handleCmd up to the fetch, lines 151-185
MirrBegin ==
    /\ mpc = "idle" \/ (mpc = "done" /\ CallerRetries(outcome))
    /\ attempts < MaxAttempts
    /\ attempts' = attempts + 1
    /\ bytesReceived' = 0
    /\ fetchErr' = NoErr
    /\ \E state \in {"ONLINE", "OFFLINE"}, allowArchiveReq \in BOOLEAN :
         IF state # "ONLINE"
         THEN /\ EndAttempt("AbortedException")
              /\ failedAt' = "badState"
              /\ UNCHANGED startByte
         ELSE IF ~allowArchiveReq
         THEN /\ EndAttempt("Exception")
              /\ failedAt' = "notAllowed"
              /\ UNCHANGED startByte
         ELSE /\ startByte' = StartByteOf(stgFile)
              /\ failedAt' = "none"
              /\ mpc' = "fetch"
              /\ outcome' = "none"
              /\ UNCHANGED outcomes
    /\ UNCHANGED << srcData, stgFile, finalFile, checksum, ngas_files, ngas_disks,
                    diskUpdates, lowSpace >>
    /\ UNCHANGED << cvars, lvars, vvars >>

\* the try block and its except clauses, lines 187-220
MirrFetch ==
    /\ mpc = "fetch"
    /\ \E n \in 0..Remaining(srcData, startByte) :
         \/ \* the fetch returns: every remaining byte was streamed
            /\ n = Remaining(srcData, startByte)
            /\ stgFile' = FetchWrite(stgFile, srcData, startByte, n)
            /\ bytesReceived' = n
            /\ checksum' = ChecksumOf(<< 1, FetchChecksum(stgFile, srcData, startByte, n) >>)
            /\ mpc' = "commit"
            /\ UNCHANGED << fetchErr, outcome, outcomes, failedAt >>
         \/ \* the fetch raises after n bytes
            /\ \E e \in FetchErrors :
                 /\ fetchErr' = e
                 /\ failedAt' = "fetch"
                 /\ EndAttempt(Classify(e, n))
            /\ \/ stgFile' = FetchWrite(stgFile, srcData, startByte, n)
               \/ \* the error came before the staging file was opened
                  n = 0 /\ stgFile' = stgFile
            /\ bytesReceived' = n
            /\ UNCHANGED checksum
    /\ UNCHANGED << srcData, finalFile, startByte, attempts, ngas_files, ngas_disks,
                    diskUpdates, lowSpace >>
    /\ UNCHANGED << cvars, lvars, vvars >>

\* the row inserted into ngas_files, lines 238-257
MirrFileRow(size) ==
    [disk_id |-> DiskId, file_id |-> FileId, file_version |-> FileVersion,
     file_size |-> size, checksum |-> checksum, checksum_plugin |-> "ngamsGenCrc32"]

\* the UPDATE of ngas_disks, lines 235-237:
\* available_mb = available_mb - :1 / (1024 * 1024), bytes_stored = bytes_stored + :2
MirrDiskUpdateReceived(d, size) ==
    [d EXCEPT !.bytes_stored = @ + bytesReceived,
              !.available_mb = @ - (bytesReceived \div (1024 * 1024))]
MirrDiskUpdate(d, size) ==
    [d EXCEPT !.bytes_stored = @ + size,
              !.available_mb = @ - (size \div (1024 * 1024))]

\* the statements after the try block, lines 222-263, one action each; a
\* statement that raises ends the attempt with its exception

\* resDapi = ngamsDAPIMirroring.ngamsGeneric(srvObj, reqPropsObj), line 224
MirrDapi ==
    /\ mpc = "commit"
    /\ \E ok \in BOOLEAN :
         IF ok
         THEN mpc' = "move" /\ UNCHANGED << outcome, outcomes, failedAt >>
         ELSE failedAt' = "dapi" /\ EndAttempt("Exception")
    /\ UNCHANGED << srcData, stgFile, finalFile, startByte, bytesReceived, fetchErr,
                    checksum, attempts, ngas_files, ngas_disks, diskUpdates, lowSpace >>
    /\ UNCHANGED << cvars, lvars, vvars >>

\* mvFile(staging file, resDapi.getCompleteFilename(), True), line 228
MirrMove ==
    /\ mpc = "move"
    /\ \E ok \in BOOLEAN :
         IF ok
         THEN /\ stgFile' = NoFile
              /\ finalFile' = [exists |-> TRUE, data |-> stgFile.data]
              /\ mpc' = "update"
              /\ UNCHANGED << outcome, outcomes, failedAt >>
         ELSE /\ failedAt' = "mvFile"
              /\ EndAttempt("Exception")
              /\ UNCHANGED << stgFile, finalFile >>
    /\ UNCHANGED << srcData, startByte, bytesReceived, fetchErr, checksum, attempts,
                    ngas_files, ngas_disks, diskUpdates, lowSpace >>
    /\ UNCHANGED << cvars, lvars, vvars >>

\* the UPDATE of ngas_disks with resDapi.getFileSize(), lines 235-237
MirrUpdate ==
    /\ mpc = "update"
    /\ \E ok \in BOOLEAN :
         IF ok
         THEN /\ ngas_disks' = MirrDiskUpdate(ngas_disks, Len(finalFile.data))
              /\ diskUpdates' = diskUpdates + 1
              /\ mpc' = "insert"
              /\ UNCHANGED << outcome, outcomes, failedAt >>
         ELSE /\ failedAt' = "update"
              /\ EndAttempt("Exception")
              /\ UNCHANGED << ngas_disks, diskUpdates >>
    /\ UNCHANGED << srcData, stgFile, finalFile, startByte, bytesReceived, fetchErr,
                    checksum, attempts, ngas_files, lowSpace >>
    /\ UNCHANGED << cvars, lvars, vvars >>

\* the INSERT INTO ngas_files, lines 238-257, and the return
MirrInsert ==
    /\ mpc = "insert"
    /\ \E ok \in BOOLEAN :
         IF ok
         THEN /\ ngas_files' = ngas_files \cup { MirrFileRow(Len(finalFile.data)) }
              /\ EndAttempt("Success")
              \* the free space left is a fact of the volume; __handleCmd
              \* does not look at it
              /\ lowSpace' \in {"below", "above"}
              /\ UNCHANGED failedAt
         ELSE /\ failedAt' = "insert"
              /\ EndAttempt("Exception")
              /\ UNCHANGED << ngas_files, lowSpace >>
    /\ UNCHANGED << srcData, stgFile, finalFile, startByte, bytesReceived, fetchErr,
                    checksum, attempts, ngas_disks, diskUpdates >>
    /\ UNCHANGED << cvars, lvars, vvars >>

MNext == MirrBegin \/ MirrFetch \/ MirrDapi \/ MirrMove \/ MirrUpdate \/ MirrInsert

vars == << mvars, cvars, failedAt, lvars, vvars >>

SpecMirror == MInit /\ [][MNext]_vars

\* ------------------------------------------------- container archive: data
\* sizes of the file parts of a request, in bytes
FileSizes == {100, 200, 1024}

\* container trees with n nodes: node 1 is the root (parent 0), and the
\* parent of every other node is a node parsed before it
TreeShapes(n) ==
    { p \in [1..n -> 0..n] : p[1] = 0 /\ \A i \in 2..n : p[i] \in 1..(i - 1) }

\* the file parts of a request over n containers: each lies in one container
FileParts(n) == [container : 1..n, size : FileSizes]

\* the request bodies the parser accepts
Bodies ==
    UNION { [parent : TreeShapes(n), files : SeqsUpTo(FileParts(n), MaxFiles)] :
            n \in 1..MaxContainers }

RECURSIVE SortedSeq(_)
SortedSeq(S) ==
    IF S = {} THEN <<>>
    ELSE LET m == CHOOSE x \in S : \A y \in S : x <= y
         IN  << m >> \o SortedSeq(S \ {m})

\* container.getContainers(): the children of node c, in parse order
Children(parent, c) == SortedSeq({ i \in DOMAIN parent : parent[i] = c })

\* the identity the catalog issues for the n-th container it creates
IssuedId(n) == [kind |-> "id", n |-> n]
\* str(x) of a container identity
Str(x) == IF x = Null THEN StrNone ELSE x

\* createContainers, lines 161-180: the nodes in the order in which the
\* recursion calls createContainer for them, starting at container c
RECURSIVE CreateOrderPost(_, _), CreateOrderPostList(_, _)
CreateOrderPost(parent, c) ==
    CreateOrderPostList(parent, Children(parent, c)) \o << c >>
CreateOrderPostList(parent, cs) ==
    IF cs = <<>> THEN <<>>
    ELSE CreateOrderPost(parent, Head(cs)) \o CreateOrderPostList(parent, Tail(cs))
RECURSIVE CreateOrder(_, _), CreateOrderList(_, _)
CreateOrder(parent, c) ==
    << c >> \o CreateOrderList(parent, Children(parent, c))
CreateOrderList(parent, cs) ==
    IF cs = <<>> THEN <<>>
    ELSE CreateOrder(parent, Head(cs)) \o CreateOrderList(parent, Tail(cs))

\* line 169: the parentContainerId argument of createContainer for a node
\* whose parent node is pn (0 for the root call createContainers(root, None))
ParentIdArg(ids, pn) == IF pn = 0 THEN Null ELSE Str(ids[pn])

\* saveInStagingFile, lines 66-73, and saveFromHttpToFile, lines 108-158:
\* every error of the Staging Writer leaves as an exception
StageNeverRaises(res) == FALSE
StageRaises(res) == res # "ok"

\* the Staging Writer's file list for the first k file parts of the body:
\* (container, staged file path, crc) with the path's base name as identity
StagedItems(body, k) ==
    [i \in 1..k |-> [container |-> body.files[i].container, fileId |-> i,
                     size |-> body.files[i].size, crc |-> i]]

\* lines 296-298: accumulate a file's size into its container's entry
AccumulateOverwrite(sizes, cid, size) ==
    IF cid \in DOMAIN sizes THEN [sizes EXCEPT ![cid] = size]
    ELSE sizes @@ (cid :> size)
Accumulate(sizes, cid, size) ==
    IF cid \in DOMAIN sizes THEN [sizes EXCEPT ![cid] = @ + size]
    ELSE sizes @@ (cid :> 0 + size)

\* line 357: one call setContainerSize(contSizeInfo[0], contSizeInfo[1])
SetContainerSize(rows, cid, size) ==
    [k \in DOMAIN rows |->
        IF Str(rows[k].container_id) = cid
        THEN [rows[k] EXCEPT !.container_size = size]
        ELSE rows[k]]

\* genFileInfo: the version the catalog assigns to a new file of fileId
NextVersion(files, fileId) ==
    LET vs == { r.file_version : r \in { q \in files : q.file_id = fileId } }
    IN  IF vs = {} THEN 1 ELSE 1 + (CHOOSE v \in vs : \A w \in vs : w <= v)

\* lines 328-330: the version written to the file record
FileVersionOf(dapiVersion, uriVer) == IF uriVer # 0 THEN uriVer ELSE dapiVersion

\* lines 336-350: the file record
CFileRow(item, version) ==
    [disk_id |-> DiskId, file_id |-> item.fileId, file_version |-> version,
     file_size |-> item.size, uncompressed_file_size |-> item.size,
     checksum |-> item.crc, checksum_plugin |-> "StreamCrc32"]

\* line 371: the size handed to updateDiskInfo is resDapi.getFileSize()
GetFileSizeUncounted(dapi) == 0
GetFileSize(dapi) == dapi.fileSize

\* srvObj.getDb().updateDiskInfo(fileSize, diskId), line 371: the volume's
\* stored-bytes and file-count counters
CDiskUpdate(d, size) ==
    [d EXCEPT !.bytes_stored = @ + size, !.number_of_files = @ + 1]

\* the calls of one loop iteration that can raise, in program order
\* (lines 285, 314, 350, 353, 357, 371)
CommitSteps == << "genFileInfo", "mvFile", "write", "addFileToContainer",
                 "setContainerSize", "updateDiskInfo" >>

\* the loop body, lines 274-373, has no try: an exception raised by one of
\* its calls leaves handleCmd
PropagatesNever(failAt) == FALSE
Propagates(failAt) == failAt # "none"

\* where handleCmd stands after a call of the loop body: it has left by the
\* exception when the call raised, and is before the next call when not
AfterCall(failAt, next) == IF Propagates(failAt) THEN "failed" ELSE next

\* createContainers returns to handleCmd (line 259) when the recursion,
\* lines 172-176, has visited every node: k is the next position of its order
TreeDoneAfterRoot(k, order) == k > 1
TreeDone(k, order) == k > Len(order)

\* for item in fileDataList, line 274: the loop ends after the last item
LoopDoneAfterFirst(i, list) == i >= 1 \/ i = Len(list)
LoopDone(i, list) == i = Len(list)

\* ------------------------------------------------ disk resource lock: data
\* the mutexDiskAccess argument saveInStagingFile passes, line 68
MutexDiskAccess == 1

\* ngamsHighLevelLib.acquireDiskResource / releaseDiskResource: each slot has
\* a lock with one permit; acquiring takes the permit and blocks while there
\* is none, and the release of the request that took it gives it back
CanAcquire(sm, slot) == sm[slot] > 0
AcquireDiskResource(sm, slot) == [sm EXCEPT ![slot] = @ - 1]
ReleaseDiskResource(sm, slot) == [sm EXCEPT ![slot] = @ + 1]

\* what a call of releaseDiskResource can leave behind.  For a request that
\* took the permit it is the release.  For a request that did not, the
\* lock's contract says nothing: the lock is left as it is (the call is
\* ignored or raises), or it counts the release
ReleaseOutcomes(sm, slot, held) ==
    IF held THEN { ReleaseDiskResource(sm, slot) }
    ELSE { sm, ReleaseDiskResource(sm, slot) }

\* the finally clause, lines 155-158: releaseDiskResource is called when
\* mutual exclusion was requested, however the try block was left
ReleasesOnReturnOnly(mutexDiskAccess, raised) == mutexDiskAccess # 0 /\ ~raised
ReleasesInFinally(mutexDiskAccess, raised) == mutexDiskAccess # 0

\* the try block of saveFromHttpToFile was left by an exception
Raised(res) == res = "acquireError" \/ StageRaises(res)

\* ---------------------------------------------- container archive: actions
CInit ==
    /\ LockIdle
    /\ VolumeIdle
    /\ srcData = <<>>
    /\ MirrIdle
    /\ mpc = "off"
    /\ failedAt = "none"
    /\ CatalogEmpty
    /\ reqBody \in Bodies
    /\ uriVersion \in {0, 2}
    /\ targSlot = 0
    /\ resDapi = Null
    /\ sizesWritten = {}
    /\ srvState \in {"ONLINE", "OFFLINE"}
    /\ srvSubState = "IDLE"
    /\ cpc = "begin"
    /\ stageErr = "none"
    /\ staged = {}
    /\ stored = {}
    /\ rootContainer = 0
    /\ fileDataList = <<>>
    /\ containerId = [c \in DOMAIN reqBody.parent |-> Null]
    /\ containerSizes = << >>
    /\ idx = 0
    /\ resDapiList = <<>>
    /\ subscriptions = <<>>
    /\ replied = FALSE

\* handleCmd up to the staging file name, lines 201-247; slot is the slot of
\* the volume getTargetVolume returns, 0 when it returns None
CBegin ==
    /\ cpc = "begin"
    /\ \E allowArchiveReq \in BOOLEAN, openUriOk \in BOOLEAN, slot \in Slots \cup {0} :
         IF ~allowArchiveReq
         THEN /\ cpc' = "failed"
              /\ failedAt' = "notAllowed"
              /\ UNCHANGED << srvSubState, targSlot >>
         ELSE IF ~(srvState = "ONLINE" /\ srvSubState \in {"IDLE", "BUSY"})
         THEN /\ cpc' = "failed"
              /\ failedAt' = "badState"
              /\ UNCHANGED << srvSubState, targSlot >>
         ELSE /\ srvSubState' = "BUSY"
              /\ cpc' = IF openUriOk /\ slot # 0 THEN "stage" ELSE "failed"
              /\ failedAt' = IF ~openUriOk THEN "openCheckUri"
                             ELSE IF slot = 0 THEN "getTargetVolume" ELSE "none"
              /\ targSlot' = IF openUriOk THEN slot ELSE targSlot
    /\ UNCHANGED << reqBody, uriVersion, resDapi, sizesWritten, srvState, stageErr, staged, stored,
                    rootContainer, fileDataList, containerId, ngas_containers,
                    containerFiles, containerSizes, idx, resDapiList,
                    subscriptions, replied, dbLog >>
    /\ UNCHANGED << mvars, lvars, vvars >>

\* saveInStagingFile up to the lock, lines 251-252 with 62-68 and 103-111.
\* getBlockSize (67) and checkCreatePath (105) run before the try block: when
\* one of them raises, the finally clause is not entered.  Inside the try
\* block acquireDiskResource returns with the permit of the target slot, or
\* raises without it.
CAcquire ==
    /\ cpc = "stage"
    /\ \/ /\ stageErr' = "pathError"
          /\ cpc' = "failed"
          /\ failedAt' = "saveInStagingFile"
          /\ UNCHANGED << sem, lockLog >>
       \/ /\ MutexDiskAccess # 0
          /\ CanAcquire(sem, targSlot)
          /\ sem' = AcquireDiskResource(sem, targSlot)
          /\ lockLog' = Append(lockLog, "acquireDiskResource")
          /\ cpc' = "write"
          /\ UNCHANGED << stageErr, failedAt >>
       \/ /\ MutexDiskAccess # 0
          /\ stageErr' = "acquireError"
          /\ lockLog' = Append(lockLog, "acquireDiskResource raised")
          /\ cpc' = "finally"
          /\ UNCHANGED << sem, failedAt >>
    /\ UNCHANGED << reqBody, uriVersion, targSlot, resDapi, sizesWritten, srvState, srvSubState, staged,
                    stored, rootContainer, fileDataList, containerId,
                    ngas_containers, containerFiles, containerSizes, idx,
                    resDapiList, subscriptions, replied, dbLog >>
    /\ UNCHANGED << mvars, vvars >>

\* the rest of the try block, lines 113-153.  res is how the Staging Writer
\* ends, k the number of file parts written before it does: every part on
\* "ok" and on "zeroTime" (the parse ended, deltaTime = 0).
CStage ==
    /\ cpc = "write"
    /\ \E res \in {"ok", "sizeError", "parseError", "ioError", "zeroTime"},
          k \in 0..Len(reqBody.files) :
         /\ res \in {"ok", "zeroTime"} => k = Len(reqBody.files)
         /\ res = "sizeError" => k = 0
         /\ stageErr' = res
         /\ staged' = 1..k
    /\ cpc' = "finally"
    /\ UNCHANGED << reqBody, uriVersion, targSlot, resDapi, sizesWritten, srvState, srvSubState, stored,
                    rootContainer, fileDataList, containerId, ngas_containers,
                    containerFiles, containerSizes, idx, resDapiList,
                    subscriptions, replied, dbLog >>
    /\ UNCHANGED << mvars, failedAt, lvars, vvars >>

\* the finally clause, lines 155-158, then the return to handleCmd (lines
\* 253-257) or the exception saveInStagingFile passes on (lines 70-73)
CRelease ==
    /\ cpc = "finally"
    /\ IF ReleasesInFinally(MutexDiskAccess, Raised(stageErr))
       THEN /\ sem' \in ReleaseOutcomes(sem, targSlot, stageErr # "acquireError")
            /\ lockLog' = Append(lockLog, "releaseDiskResource")
       ELSE UNCHANGED << sem, lockLog >>
    /\ IF StageRaises(stageErr)
       THEN /\ cpc' = "failed"
            /\ failedAt' = "saveInStagingFile"
            /\ UNCHANGED << rootContainer, fileDataList >>
       ELSE /\ cpc' = "containers"
            /\ UNCHANGED failedAt
            /\ rootContainer' = 1
            /\ fileDataList' = StagedItems(reqBody, Cardinality(staged))
    /\ UNCHANGED << reqBody, uriVersion, targSlot, resDapi, sizesWritten, srvState, srvSubState, stageErr,
                    staged, stored, containerId, ngas_containers,
                    containerFiles, containerSizes, idx, resDapiList,
                    subscriptions, replied, dbLog >>
    /\ UNCHANGED << mvars, vvars >>

\* one call of createContainers, lines 161-176 (line 259 starts the recursion
\* at the root): createContainer for the next node of the recursion's order
CCreateContainer ==
    /\ cpc = "containers"
    /\ LET order == CreateOrder(reqBody.parent, rootContainer)
           k     == Len(ngas_containers) + 1
       IN  IF TreeDone(k, order)
           THEN /\ cpc' = "files"
                /\ UNCHANGED << containerId, ngas_containers, dbLog, failedAt >>
           ELSE \E dbOk \in BOOLEAN :
                  IF ~dbOk
                  THEN /\ cpc' = "failed"
                       /\ failedAt' = "createContainer"
                       /\ UNCHANGED << containerId, ngas_containers, dbLog >>
                  ELSE LET node == order[k]
                           row  == [container_id |-> IssuedId(k),
                                    container_name |-> node,
                                    parent_container_id |->
                                        ParentIdArg(containerId, reqBody.parent[node]),
                                    container_size |-> 0]
                       IN  /\ ngas_containers' = Append(ngas_containers, row)
                           /\ containerId' = [containerId EXCEPT ![node] = IssuedId(k)]
                           /\ dbLog' = Append(dbLog, "createContainer")
                           /\ UNCHANGED << cpc, failedAt >>
    /\ UNCHANGED << reqBody, uriVersion, targSlot, resDapi, sizesWritten, srvState, srvSubState, stageErr, staged,
                    stored, rootContainer, fileDataList, containerFiles,
                    containerSizes, idx, resDapiList, subscriptions, replied >>
    /\ UNCHANGED << mvars, lvars, vvars >>

\* The loop over fileDataList, lines 274-373, one action per call that can
\* raise.  idx counts the completed iterations, item idx + 1 is the current
\* one; failAt is the call when it raises, "none" when it returns.
\* Lines 275-307: genFileInfo, the entry of containerSizes, resDapi
CGenFileInfo ==
    /\ cpc = "files"
    /\ ~LoopDone(idx, fileDataList)
    /\ \E failAt \in {"none", "genFileInfo"} :
         LET item == fileDataList[idx + 1]
             cid  == Str(containerId[item.container])
         IN  /\ failedAt' = failAt
             /\ cpc' = AfterCall(failAt, "mvFile")
             /\ IF failAt = "none"
                THEN /\ containerSizes' = Accumulate(containerSizes, cid, item.size)
                     /\ resDapi' = [fileId |-> item.fileId,
                                    fileVersion |-> NextVersion(ngas_files, item.fileId),
                                    fileSize |-> item.size]
                ELSE UNCHANGED << containerSizes, resDapi >>
    /\ UNCHANGED << reqBody, uriVersion, targSlot, sizesWritten, srvState, srvSubState,
                    stageErr, staged, stored, rootContainer, fileDataList,
                    containerId, ngas_containers, containerFiles, idx,
                    resDapiList, subscriptions, replied, dbLog >>
    /\ UNCHANGED << mvars, lvars, vvars >>

\* lines 308-312: the staged file is moved to resDapi.getCompleteFilename()
CMvFile ==
    /\ cpc = "mvFile"
    /\ \E failAt \in {"none", "mvFile"} :
         /\ failedAt' = failAt
         /\ cpc' = AfterCall(failAt, "fileInfoWrite")
         /\ staged' = IF failAt = "none" THEN staged \ {idx + 1} ELSE staged
         /\ stored' = IF failAt = "none" THEN stored \cup {idx + 1} ELSE stored
    /\ UNCHANGED << reqBody, uriVersion, targSlot, resDapi, sizesWritten, srvState,
                    srvSubState, stageErr, rootContainer, fileDataList,
                    containerId, ngas_containers, containerFiles,
                    containerSizes, idx, resDapiList, subscriptions, replied,
                    dbLog >>
    /\ UNCHANGED << mvars, lvars, vvars >>

\* lines 314-350: file_version, fileInfo and fileInfo.write
CWrite ==
    /\ cpc = "fileInfoWrite"
    /\ \E failAt \in {"none", "write"} :
         LET item    == fileDataList[idx + 1]
             version == FileVersionOf(resDapi.fileVersion, uriVersion)
         IN  /\ failedAt' = failAt
             /\ cpc' = AfterCall(failAt, "addFileToContainer")
             /\ IF failAt = "none"
                THEN /\ ngas_files' = ngas_files \cup { CFileRow(item, version) }
                     /\ dbLog' = Append(dbLog, "write")
                ELSE UNCHANGED << ngas_files, dbLog >>
    /\ UNCHANGED << reqBody, uriVersion, targSlot, resDapi, sizesWritten, srvState,
                    srvSubState, stageErr, staged, stored, rootContainer,
                    fileDataList, containerId, ngas_containers, containerFiles,
                    containerSizes, idx, resDapiList, subscriptions, replied >>
    /\ UNCHANGED << srcData, stgFile, finalFile, startByte, bytesReceived, fetchErr,
                    checksum, mpc, outcome, outcomes, attempts, ngas_disks,
                    diskUpdates, lowSpace >>
    /\ UNCHANGED << lvars, vvars >>

\* line 353: addFileToContainer(containerId, resDapi.getFileId(), True); the
\* loop of line 356 starts after it
CAddFileToContainer ==
    /\ cpc = "addFileToContainer"
    /\ \E failAt \in {"none", "addFileToContainer"} :
         LET item == fileDataList[idx + 1]
             cid  == Str(containerId[item.container])
         IN  /\ failedAt' = failAt
             /\ cpc' = AfterCall(failAt, "setContainerSize")
             /\ IF failAt = "none"
                THEN /\ containerFiles' = containerFiles \cup { << cid, resDapi.fileId >> }
                     /\ dbLog' = Append(dbLog, "addFileToContainer")
                ELSE UNCHANGED << containerFiles, dbLog >>
             /\ sizesWritten' = {}
    /\ UNCHANGED << reqBody, uriVersion, targSlot, resDapi, srvState, srvSubState,
                    stageErr, staged, stored, rootContainer, fileDataList,
                    containerId, ngas_containers, containerSizes, idx,
                    resDapiList, subscriptions, replied >>
    /\ UNCHANGED << mvars, lvars, vvars >>

\* one iteration of the loop of lines 356-357: setContainerSize for the next
\* entry of containerSizes.  The order of containerSizes.iteritems() is the
\* dictionary's, which the code does not fix: any entry not yet written can
\* be the next.  After the last entry handleCmd goes on to line 371.
CSetContainerSize ==
    /\ cpc = "setContainerSize"
    /\ \E cid \in DOMAIN containerSizes \ sizesWritten,
          failAt \in {"none", "setContainerSize"} :
         LET written == sizesWritten \cup {cid}
         IN  /\ failedAt' = failAt
             /\ cpc' = AfterCall(failAt,
                                 IF written = DOMAIN containerSizes
                                 THEN "updateDiskInfo" ELSE "setContainerSize")
             /\ IF failAt = "none"
                THEN /\ ngas_containers' =
                            SetContainerSize(ngas_containers, cid, containerSizes[cid])
                     /\ dbLog' = Append(dbLog, "setContainerSize")
                     /\ sizesWritten' = written
                ELSE UNCHANGED << ngas_containers, dbLog, sizesWritten >>
    /\ UNCHANGED << reqBody, uriVersion, targSlot, resDapi, srvState, srvSubState,
                    stageErr, staged, stored, rootContainer, fileDataList,
                    containerId, containerFiles, containerSizes, idx,
                    resDapiList, subscriptions, replied >>
    /\ UNCHANGED << mvars, lvars, vvars >>

\* lines 359-373: updateDiskInfo(resDapi.getFileSize(), resDapi.getDiskId()),
\* then resDapiList.append(resDapi) and the next item
CUpdateDiskInfo ==
    /\ cpc = "updateDiskInfo"
    /\ \E failAt \in {"none", "updateDiskInfo"} :
         /\ failedAt' = failAt
         /\ cpc' = AfterCall(failAt, "files")
         /\ IF failAt = "none"
            THEN /\ ngas_disks' = CDiskUpdate(ngas_disks, GetFileSize(resDapi))
                 /\ diskUpdates' = diskUpdates + 1
                 /\ dbLog' = Append(dbLog, "updateDiskInfo")
            ELSE UNCHANGED << ngas_disks, diskUpdates, dbLog >>
         /\ IF Propagates(failAt)
            THEN UNCHANGED << resDapiList, idx >>
            ELSE /\ resDapiList' = Append(resDapiList, resDapi)
                 /\ idx' = idx + 1
    /\ UNCHANGED << reqBody, uriVersion, targSlot, resDapi, sizesWritten, srvState,
                    srvSubState, stageErr, staged, stored, rootContainer,
                    fileDataList, containerId, ngas_containers, containerFiles,
                    containerSizes, subscriptions, replied >>
    /\ UNCHANGED << srcData, stgFile, finalFile, startByte, bytesReceived, fetchErr,
                    checksum, mpc, outcome, outcomes, attempts, ngas_files, lowSpace >>
    /\ UNCHANGED << lvars, vvars >>

\* after the loop, lines 375-383: the completed flag of the target volume
CFinish ==
    /\ cpc = "files"
    /\ LoopDone(idx, fileDataList)
    /\ \E belowThreshold \in BOOLEAN, dbOk \in BOOLEAN :
         IF belowThreshold /\ ~dbOk
         THEN /\ cpc' = "failed"
              /\ failedAt' = "setDiskCompleted"
              /\ lowSpace' = "below"
              /\ UNCHANGED ngas_disks
         ELSE /\ UNCHANGED failedAt
              /\ lowSpace' = IF belowThreshold THEN "below" ELSE "above"
              /\ ngas_disks' = IF belowThreshold
                               THEN [ngas_disks EXCEPT !.completed = 1]
                               ELSE ngas_disks
              /\ cpc' = "setIdle"
    /\ UNCHANGED << reqBody, uriVersion, targSlot, resDapi, sizesWritten, srvState, srvSubState, stageErr,
                    staged, stored, rootContainer, fileDataList, containerId,
                    ngas_containers, containerFiles, containerSizes, idx,
                    resDapiList, subscriptions, replied, dbLog >>
    /\ UNCHANGED << srcData, stgFile, finalFile, startByte, bytesReceived, fetchErr,
                    checksum, mpc, outcome, outcomes, attempts, ngas_files, diskUpdates >>
    /\ UNCHANGED << lvars, vvars >>

\* line 386: srvObj.setSubState(NGAMS_IDLE_SUBSTATE)
CSetIdle ==
    /\ cpc = "setIdle"
    /\ srvSubState' = "IDLE"
    /\ cpc' = "reply"
    /\ UNCHANGED << reqBody, uriVersion, targSlot, resDapi, sizesWritten, srvState, stageErr, staged, stored,
                    rootContainer, fileDataList, containerId, ngas_containers,
                    containerFiles, containerSizes, idx, resDapiList,
                    subscriptions, replied, dbLog >>
    /\ UNCHANGED << mvars, failedAt, lvars, vvars >>

\* lines 388-391: the reply to the client; ingestReply can raise (the client
\* has gone), and then handleCmd ends with that exception
CReply ==
    /\ cpc = "reply"
    /\ \E sent \in BOOLEAN :
         IF sent
         THEN /\ replied' = TRUE
              /\ cpc' = IF resDapiList = <<>> THEN "done" ELSE "notify"
              /\ UNCHANGED failedAt
         ELSE /\ cpc' = "failed"
              /\ failedAt' = "ingestReply"
              /\ UNCHANGED replied
    /\ UNCHANGED << reqBody, uriVersion, targSlot, resDapi, sizesWritten, srvState, srvSubState, stageErr,
                    staged, stored, rootContainer, fileDataList, containerId,
                    ngas_containers, containerFiles, containerSizes, idx,
                    resDapiList, subscriptions, dbLog >>
    /\ UNCHANGED << mvars, lvars, vvars >>

\* one iteration of the loop over resDapiList, lines 394-401: the pair of
\* the next file is added to the subscription back-log (399-400), then the
\* subscription thread is triggered (401).  failAt is the call that raises.
CNotify ==
    /\ cpc = "notify"
    /\ LET n    == Len(subscriptions) + 1
           pair == << resDapiList[n].fileId, resDapiList[n].fileVersion >>
       IN  \E failAt \in {"none", "addSubscriptionInfo", "triggerSubscriptionThread"} :
             /\ subscriptions' = IF failAt = "addSubscriptionInfo"
                                 THEN subscriptions
                                 ELSE Append(subscriptions, pair)
             /\ failedAt' = failAt
             /\ cpc' = IF failAt # "none" THEN "failed"
                       ELSE IF n = Len(resDapiList) THEN "done"
                       ELSE "notify"
    /\ UNCHANGED << reqBody, uriVersion, targSlot, resDapi, sizesWritten, srvState, srvSubState, stageErr,
                    staged, stored, rootContainer, fileDataList, containerId,
                    ngas_containers, containerFiles, containerSizes, idx,
                    resDapiList, replied, dbLog >>
    /\ UNCHANGED << mvars, lvars, vvars >>

CNext == CBegin \/ CAcquire \/ CStage \/ CRelease \/ CCreateContainer
            \/ CGenFileInfo \/ CMvFile \/ CWrite \/ CAddFileToContainer
            \/ CSetContainerSize \/ CUpdateDiskInfo
            \/ CFinish \/ CSetIdle \/ CReply \/ CNotify

SpecCArchive == CInit /\ [][CNext]_vars

\* a server that takes one request of either kind
Init == MInit \/ CInit
Next == MNext \/ CNext
Spec == Init /\ [][Next]_vars

\* ------------------------------------------- mirror volume selector: data
\* srvObj.getHostId()
HostId == "local"

\* rows of ngas_disks: host, completed flag, available space
DiskRows == [host_id : {"local", "other"}, completed : {0, 1},
             available_mb : 0..MaxAvail]
DiskTables == SeqsUpTo(DiskRows, MaxVolumes)

\* ngamsDbCore.getNgasDisksCols(): the column list, a string
NgasDisksCols == "nd.disk_id, nd.available_mb, nd.completed"

\* the second string literal of the query, line 73, cut at its conversion
\* specifiers (it has none; the %s is in the first literal, line 72)
QueryTail == << "host_id={0} order by available_mb desc" >>

\* the number of % conversion specifiers of a format string
ConversionSpecs(fmt) == Cardinality({ i \in DOMAIN fmt : fmt[i] = "%s" })

\* format % arg with a string as arg: one argument, to be consumed by exactly
\* one specifier, or TypeError is raised
FormatRaises(fmt, arg) == ConversionSpecs(fmt) # 1

\* lines 72-73: head + tail % cols.  % binds tighter than +, so the tail
\* alone is formatted
BuildQueryRaises(cols) == FormatRaises(QueryTail, cols)

\* the rows WHERE completed=0 AND host_id=host selects
Candidates(table, host) ==
    { i \in DOMAIN table : table[i].completed = 0 /\ table[i].host_id = host }

\* the rows that can be res[0] under ORDER BY available_mb DESC
FirstRows(table, host) ==
    { i \in Candidates(table, host) :
        \A j \in Candidates(table, host) :
            table[j].available_mb <= table[i].available_mb }

\* getTargetVolume, lines 63-78: the ways the call can end
GetTargetVolume(table, host) ==
    IF BuildQueryRaises(NgasDisksCols)
    THEN { [kind |-> "TypeError", volume |-> 0] }
    ELSE IF Candidates(table, host) = {}
    THEN { [kind |-> "None", volume |-> 0] }
    ELSE { [kind |-> "volume", volume |-> i] : i \in FirstRows(table, host) }

\* ---------------------------------------- mirror volume selector: actions
VInit ==
    /\ diskTable \in DiskTables
    /\ target = NotCalled
    /\ LockIdle
    /\ srcData = <<>>
    /\ MirrIdle
    /\ mpc = "off"
    /\ CatalogEmpty
    /\ CArchIdle
    /\ cpc = "off"
    /\ failedAt = "none"

\* one call of getTargetVolume(srvObj)
SelectVolume ==
    /\ target = NotCalled
    /\ target' \in GetTargetVolume(diskTable, HostId)
    /\ UNCHANGED << diskTable, mvars, cvars, failedAt, lvars >>

\* updateDiskInfo(srvObj, resDapi, availSpace), lines 80-101: the UPDATE of
\* the row of the volume hosting a file of resDapi.getFileSize() bytes
UpdateDiskInfo(d, size, availSpace) ==
    [d EXCEPT !.number_of_files = @ + 1,
              !.available_mb = availSpace,
              !.bytes_stored = @ + size]

\* one call of updateDiskInfo; no statement of the mirror handler makes it
MirrUpdateDiskInfo ==
    /\ diskUpdates < MaxCalls
    /\ \E size \in 0..MaxLen, availSpace \in 0..MaxAvail :
         ngas_disks' = UpdateDiskInfo(ngas_disks, size, availSpace)
    /\ diskUpdates' = diskUpdates + 1
    /\ UNCHANGED << srcData, stgFile, finalFile, startByte, bytesReceived, fetchErr,
                    checksum, mpc, outcome, outcomes, attempts, ngas_files, lowSpace >>
    /\ UNCHANGED << cvars, failedAt, lvars, vvars >>

VNext == SelectVolume \/ MirrUpdateDiskInfo

SpecVolume == VInit /\ [][VNext]_vars

\* ------------------------------------------------------- mirror: properties
\* the fetch of the attempt that just ended raised e, and e does not signal
\* that the local disk is out of space
AttemptFailedInFetch == mpc = "done" /\ fetchErr # NoErr
OutOfSpace(e) == e.errno = ENOSPC

\* C1 as claimed, for the errors the handler classifies itself (an exception
\* that is neither FailedDownloadException nor PostponeException): a fetch
\* error that is not out-of-space, with zero bytes ever received (startByte
\* = 0 and nothing received in this attempt), ends the attempt with
\* FailedDownloadException, never with PostponeException.
C1_ZeroBytesIsPermanentFailure ==
    (AttemptFailedInFetch /\ fetchErr.type = "Exception" /\ ~OutOfSpace(fetchErr)
        /\ startByte = 0 /\ bytesReceived = 0)
    => outcome = "FailedDownloadException"

\* C2: a fetch error that signals out-of-space (errno 28) ends the attempt
\* with FailedDownloadException, whatever the start offset and the number of
\* bytes received; never with PostponeException.
C2_OutOfSpaceIsPermanentFailure ==
    (AttemptFailedInFetch /\ OutOfSpace(fetchErr))
    => outcome = "FailedDownloadException"

C2_Witness ==
    /\ AttemptFailedInFetch /\ OutOfSpace(fetchErr)
    /\ startByte > 0 /\ bytesReceived > 0
    /\ outcome = "FailedDownloadException"

\* C3 as claimed: every fetch error that is not out-of-space, after at least
\* one byte was received in this attempt or left on disk by a prior one, ends
\* the attempt with PostponeException and leaves the staging file as the
\* fetch left it.
C3_AnyNonSpaceErrorIsResumable ==
    (AttemptFailedInFetch /\ ~OutOfSpace(fetchErr)
        /\ (bytesReceived > 0 \/ startByte > 0))
    => /\ outcome = "PostponeException"
       /\ stgFile.exists
       /\ stgFile.data = SubSeq(srcData, 1, startByte + bytesReceived)

\* C3 amended: the same for every such error that is not a
\* FailedDownloadException raised by the fetch itself (which the handler
\* re-raises unchanged); the staging file then holds exactly the bytes on
\* disk before the attempt followed by the bytes received in it.
C3_NonSpaceErrorIsResumable ==
    (AttemptFailedInFetch /\ ~OutOfSpace(fetchErr)
        /\ fetchErr.type # "FailedDownloadException"
        /\ (bytesReceived > 0 \/ startByte > 0))
    => /\ outcome = "PostponeException"
       /\ stgFile.exists
       /\ stgFile.data = SubSeq(srcData, 1, startByte + bytesReceived)

C3_Witness ==
    /\ AttemptFailedInFetch /\ fetchErr = [type |-> "Exception", errno |-> 5]
    /\ startByte > 0 /\ bytesReceived = 0
    /\ outcome = "PostponeException"
    /\ stgFile.exists /\ Len(stgFile.data) = startByte

\* C4: every attempt starts the fetch at the staging file's current size
\* (0 when absent); the start offset never decreases from one attempt to the
\* next; the fetch keeps every byte already written (the old content is a
\* prefix of the new one, which is a prefix of the source).
C4_Step ==
    /\ (mpc' = "fetch" /\ mpc # "fetch") =>
           /\ startByte' = (IF stgFile'.exists THEN Len(stgFile'.data) ELSE 0)
           /\ startByte' >= startByte
    /\ (mpc = "fetch" /\ mpc' # "fetch") =>
           /\ IsPrefix(stgFile.data, stgFile'.data)
           /\ IsPrefix(stgFile'.data, srcData)
           /\ Len(stgFile'.data) = startByte + bytesReceived'
C4_OffsetIsFileSizeAndMonotonic == [][C4_Step]_vars

C4_Witness ==
    /\ mpc = "fetch" /\ attempts >= 3
    /\ startByte > 1 /\ startByte = Len(stgFile.data)

\* C5: a transfer completed after any number of resumable interruptions
\* commits the checksum of the whole file, the one an unbroken transfer
\* commits, and places the whole content at the final destination.
C5_ChecksumIndependentOfResumption ==
    outcome = "Success" =>
        /\ finalFile.exists /\ finalFile.data = srcData
        /\ \A r \in ngas_files : r.checksum = Crc(srcData, 0)
        /\ ngas_files # {}

C5_Witness ==
    /\ outcome = "Success"
    /\ Len(outcomes) >= 2
    /\ startByte > 0 /\ startByte < Len(srcData)
    /\ \E r \in ngas_files : r.checksum = Crc(srcData, 0)

\* every attempt before the last ended resumable, and the last in success
ResumedToSuccess ==
    /\ outcomes # <<>>
    /\ outcomes[Len(outcomes)] = "Success"
    /\ \A i \in 1..(Len(outcomes) - 1) : outcomes[i] = "PostponeException"

\* C6: an attempt that ends resumable leaves ngas_files and ngas_disks
\* unchanged, and a request that succeeds after any number of resumable
\* attempts holds exactly one file record for its (fileId, fileVersion) and
\* has changed the volume counters exactly once, by the file's size.
C6_Step ==
    /\ (mpc # "done" /\ mpc' = "done" /\ outcome' = "PostponeException") =>
           /\ ngas_files' = ngas_files
           /\ ngas_disks' = ngas_disks
           /\ diskUpdates' = diskUpdates
    /\ ResumedToSuccess' =>
           /\ Cardinality({ r \in ngas_files' :
                  r.file_id = FileId /\ r.file_version = FileVersion }) = 1
           /\ diskUpdates' = 1
           /\ ngas_disks'.bytes_stored = InitDisk.bytes_stored + Len(srcData)
           /\ ngas_disks'.available_mb
                = InitDisk.available_mb - (Len(srcData) \div (1024 * 1024))
C6_ResumableLeavesCatalogUnchanged == [][C6_Step]_vars

C6_Witness ==
    /\ ResumedToSuccess /\ Len(outcomes) >= 3
    /\ Cardinality(ngas_files) = 1 /\ diskUpdates = 1

\* -------------------------------------------- container archive: properties
RECURSIVE SumSizes(_)
SumSizes(rows) ==
    IF rows = {} THEN 0
    ELSE LET r == CHOOSE x \in rows : TRUE
         IN  r.uncompressed_file_size + SumSizes(rows \ {r})

\* the file records attached to the containers cids by the catalog relation
AttachedFiles(cids) ==
    { r \in ngas_files : \E cid \in cids : << cid, r.file_id >> \in containerFiles }

\* the persisted row of tree node c
RowOf(c) ==
    ngas_containers[CHOOSE k \in DOMAIN ngas_containers :
                        ngas_containers[k].container_name = c]

\* C7: after a successful multi-file request every container of the request
\* is persisted, and the size last written for it with setContainerSize is
\* exactly the sum of the uncompressed sizes of the files attached to it.
C7_ContainerSizeIsSumOfAttachedFiles ==
    cpc = "done" =>
        /\ Len(ngas_containers) = Len(reqBody.parent)
        /\ \A k \in DOMAIN ngas_containers :
               ngas_containers[k].container_size =
                   SumSizes(AttachedFiles({ ngas_containers[k].container_id }))

C7_Witness ==
    /\ cpc = "done"
    /\ Len(ngas_containers) = 2
    /\ Cardinality(AttachedFiles({ ngas_containers[2].container_id })) = 2
    /\ ngas_containers[2].container_size = 300
    /\ ngas_containers[1].container_size = 0

\* C8 as claimed: in the request where container A holds f1 (100 bytes) and
\* A's child B holds f2 (200 bytes), A is persisted with the size of its own
\* files and those of its descendants, 300, and B with 200, with two file
\* records and two add-to-container relations.
C8_SizeAggregatesDescendants ==
    (/\ cpc = "done"
     /\ reqBody.parent = << 0, 1 >>
     /\ reqBody.files = << [container |-> 1, size |-> 100],
                           [container |-> 2, size |-> 200] >>)
    => /\ RowOf(1).container_size = 300
       /\ RowOf(2).container_size = 200
       /\ Cardinality(ngas_files) = 2
       /\ Cardinality(containerFiles) = 2

\* C9: in every state, each persisted container other than the root carries
\* as parent id the identity the catalog issued to its parent in the tree,
\* whose row was persisted before it; the root is persisted first, with a
\* null parent; each persisted node holds its issued identity.
C9_ParentPersistedBeforeChild ==
    \A k \in DOMAIN ngas_containers :
        LET row == ngas_containers[k]
            pn  == reqBody.parent[row.container_name]
        IN  /\ row.container_id.kind = "id"
            /\ containerId[row.container_name] = row.container_id
            /\ IF pn = 0
               THEN k = 1 /\ row.parent_container_id = Null
               ELSE \E j \in 1..(k - 1) :
                        /\ ngas_containers[j].container_name = pn
                        /\ ngas_containers[j].container_id = row.parent_container_id

C9_Witness ==
    /\ cpc = "done"
    /\ reqBody.parent = << 0, 1, 2 >>
    /\ Len(ngas_containers) = 3
    /\ ngas_containers[3].parent_container_id = ngas_containers[2].container_id
    /\ ngas_containers[2].parent_container_id = ngas_containers[1].container_id

\* C10: when the Staging Writer fails (path creation, lock acquisition, size
\* estimation, parse or I/O error, or the rate computation), the request is
\* in the finally clause or has failed, it never reaches the container
\* persistence, and the catalog is as before the request: no container, no
\* file record, no file-to-container relation, no volume counter change, no
\* catalog call at all.
C10_StagingFailurePersistsNothing ==
    stageErr \notin {"none", "ok"} =>
        /\ cpc \in {"finally", "failed"}
        /\ cpc = "failed" => failedAt = "saveInStagingFile"
        /\ ngas_containers = <<>>
        /\ ngas_files = {}
        /\ containerFiles = {}
        /\ ngas_disks = InitDisk
        /\ diskUpdates = 0
        /\ dbLog = <<>>

C10_Witness ==
    /\ stageErr = "parseError"
    /\ staged # {}
    /\ Len(reqBody.parent) > 1
    /\ cpc = "failed"
    /\ ngas_containers = <<>>

\* ------------------------------------- container archive: request outcomes
\* the request ended before a volume was selected: archiving not permitted
\* (203-205), server state not accepting (206-209), no volume (229-233)
RejectedAtSelectVolume ==
    cpc = "failed" /\ failedAt \in {"notAllowed", "badState", "getTargetVolume"}

\* C13 as claimed: after a rejection at the volume selection the substate is
\* the one before the request (IDLE), and the catalog and the staging area
\* are untouched.
C13_RejectionHasNoSideEffects ==
    RejectedAtSelectVolume =>
        /\ srvSubState = "IDLE"
        /\ staged = {} /\ stored = {}
        /\ ngas_containers = <<>> /\ ngas_files = {} /\ containerFiles = {}
        /\ ngas_disks = InitDisk /\ dbLog = <<>>

\* every item of fileDataList went through all commit steps
AllCommitted ==
    /\ idx = Len(fileDataList)
    /\ \A i \in DOMAIN fileDataList :
         /\ i \in stored
         /\ \E row \in ngas_files : row.file_id = fileDataList[i].fileId
         /\ \E pair \in containerFiles : pair[2] = fileDataList[i].fileId

\* the request failed before the notification loop: at the volume selection,
\* in staging, in the container persistence, in a commit step, at the
\* completed flag or at the reply
FailedBeforeNotify ==
    /\ cpc = "failed"
    /\ failedAt \notin {"addSubscriptionInfo", "triggerSubscriptionThread"}

\* C14: addSubscriptionInfo and triggerSubscriptionThread are called only
\* after every file of the request was committed and the request was
\* answered with success, then at most once per file and in the order of the
\* files; a request in which staging, container persistence or a commit
\* step failed registers no subscription.
C14_NotifyOnlyAfterFullCommit ==
    /\ FailedBeforeNotify => subscriptions = <<>>
    /\ subscriptions # <<>> =>
         /\ AllCommitted
         /\ replied
         /\ Len(subscriptions) <= Len(fileDataList)
         /\ \A i \in DOMAIN subscriptions :
                subscriptions[i][1] = fileDataList[i].fileId
    /\ cpc = "done" => Len(subscriptions) = Len(fileDataList)

C14_Witness ==
    /\ cpc = "done"
    /\ Len(subscriptions) = 2
    /\ Cardinality(ngas_files) = 2
    /\ failedAt = "none"

\* C15 as claimed: after the notification of a fully successful request, the
\* (fileId, fileVersion) pairs given to addSubscriptionInfo are the pairs of
\* the File Records the request committed, whether or not the URI carried a
\* file_version.
C15_SubscriptionsMatchFileRecords ==
    cpc = "done" =>
        { subscriptions[i] : i \in DOMAIN subscriptions }
            = { << row.file_id, row.file_version >> : row \in ngas_files }

\* the sum of the sizes of the first n items of the file list
RECURSIVE SizeOfFirst(_, _)
SizeOfFirst(list, n) ==
    IF n = 0 THEN 0 ELSE SizeOfFirst(list, n - 1) + list[n].size

\* C16: while the commit loop runs (between any two of its calls) and after
\* it, the volume row was updated once per committed file and stores
\* exactly the bytes of the committed files more than before the request; so after a successful request of n
\* files, n updates added the sum of the n sizes.  A request of one
\* 1024-byte file and no declared container ends with one root container of
\* size 1024, one file record and 1024 more bytes stored.
C16_BytesStoredGrowsBySumOfSizes ==
    /\ (/\ cpc \in {"files", "mvFile", "fileInfoWrite", "addFileToContainer",
                   "setContainerSize", "updateDiskInfo",
                   "setIdle", "reply", "notify", "done"}
        /\ failedAt = "none") =>
         /\ diskUpdates = idx
         /\ ngas_disks.bytes_stored
              = InitDisk.bytes_stored + SizeOfFirst(fileDataList, idx)
         /\ ngas_disks.number_of_files = InitDisk.number_of_files + idx
    /\ cpc \in {"setIdle", "reply", "notify", "done"} => idx = Len(reqBody.files)
    /\ (/\ cpc = "done"
        /\ reqBody = [parent |-> << 0 >>,
                      files |-> << [container |-> 1, size |-> 1024] >>]) =>
         /\ Len(ngas_containers) = 1
         /\ ngas_containers[1].container_size = 1024
         /\ ngas_containers[1].parent_container_id = Null
         /\ Cardinality(ngas_files) = 1
         /\ ngas_disks.bytes_stored = InitDisk.bytes_stored + 1024

C16_Witness ==
    /\ cpc = "done"
    /\ reqBody = [parent |-> << 0 >>,
                  files |-> << [container |-> 1, size |-> 1024] >>]
    /\ diskUpdates = 1
    /\ ngas_disks.bytes_stored = 1024

\* --------------------------------------------------- volume accounting
\* C17 as claimed: after a successful mirror archive of one file the volume
\* row stores the file's bytes more than before and counts one file more.
C17_MirrorAccountsForTheFile ==
    (mpc = "done" /\ outcome = "Success") =>
        /\ ngas_disks.bytes_stored = InitDisk.bytes_stored + Len(finalFile.data)
        /\ ngas_disks.number_of_files = InitDisk.number_of_files + 1

\* the bytes of the File Records in the catalog
RECURSIVE RecordedBytes(_)
RecordedBytes(rows) ==
    IF rows = {} THEN 0
    ELSE LET r == CHOOSE x \in rows : TRUE
         IN  r.file_size + RecordedBytes(rows \ {r})

\* C18 as claimed: in every state of either handler, the volume row stores
\* no more bytes, and has lost no more available space, than the File
\* Records in the catalog account for, also after a failed insert.
C18_CountersOnlyForRecordedFiles ==
    /\ ngas_disks.bytes_stored <= InitDisk.bytes_stored + RecordedBytes(ngas_files)
    /\ ngas_disks.available_mb >= InitDisk.available_mb - RecordedBytes(ngas_files)

\* ------------------------------------------------------ failure handling
\* the bytes of the first n items of the file list that lie in container c
RECURSIVE SizeInContainer(_, _, _)
SizeInContainer(list, n, c) ==
    IF n = 0 THEN 0
    ELSE SizeInContainer(list, n - 1, c)
           + (IF list[n].container = c THEN list[n].size ELSE 0)

\* C19: when the catalog rejects the File Record (fileInfo.write of the
\* container archive, the INSERT of the mirror archive), the request ends
\* in failure and nothing is done after the rejected call.  Container
\* archive: the file has no record and no container relation, the container
\* sizes and the volume row are those of the files committed before it, no
\* success reply, no subscription.  Mirror archive: the attempt ends with
\* the exception, not with success, and no record exists.
C19_RejectedFileRecordPropagates ==
    /\ failedAt = "write" =>
         LET item == fileDataList[idx + 1]
         IN  /\ cpc = "failed"
             /\ ~ \E row \in ngas_files : row.file_id = item.fileId
             /\ ~ \E pair \in containerFiles : pair[2] = item.fileId
             /\ \A k \in DOMAIN ngas_containers :
                  ngas_containers[k].container_size
                    = SizeInContainer(fileDataList, idx,
                                      ngas_containers[k].container_name)
             /\ diskUpdates = idx
             /\ ngas_disks.bytes_stored
                  = InitDisk.bytes_stored + SizeOfFirst(fileDataList, idx)
             /\ ~replied
             /\ subscriptions = <<>>
    /\ failedAt = "insert" =>
         /\ mpc = "done"
         /\ outcome = "Exception"
         /\ ~CallerRetries(outcome)
         /\ ngas_files = {}

C19_Witness ==
    /\ failedAt = "write"
    /\ idx = 1
    /\ Cardinality(ngas_files) = 1
    /\ Cardinality(stored) = 2
    /\ diskUpdates = 1

\* a call of a loop iteration raised: committing file number idx + 1 failed
CommitFailed == \E i \in DOMAIN CommitSteps : failedAt = CommitSteps[i]

\* C20: when committing the k-th file fails (k = idx + 1), each of the k-1
\* files before it keeps its File Record, its container relation, its moved
\* payload and its volume counter update, and the request has failed: no
\* success reply, no subscription.
C20_EarlierFilesStayCommitted ==
    CommitFailed =>
        /\ cpc = "failed"
        /\ ~replied
        /\ subscriptions = <<>>
        /\ \A i \in 1..idx :
             /\ i \in stored
             /\ \E row \in ngas_files :
                  /\ row.file_id = fileDataList[i].fileId
                  /\ row.file_size = fileDataList[i].size
             /\ << Str(containerId[fileDataList[i].container]),
                   fileDataList[i].fileId >> \in containerFiles
        /\ diskUpdates = idx
        /\ ngas_disks.bytes_stored
             = InitDisk.bytes_stored + SizeOfFirst(fileDataList, idx)
        /\ ngas_disks.number_of_files = InitDisk.number_of_files + idx

C20_Witness ==
    /\ failedAt = "mvFile"
    /\ idx = 1
    /\ Len(fileDataList) = 2
    /\ Cardinality(ngas_files) = 1
    /\ stored = {1}
    /\ ngas_disks.bytes_stored = fileDataList[1].size

\* ------------------------------------------------- disk resource lock
\* the request has left handleCmd
Terminated == cpc \in {"done", "failed"}

\* C11: a request that has left handleCmd, by return or by exception, has
\* given back the permit of every slot; the permit of a slot is taken only
\* for the target slot and only from the acquisition to the finally clause
\* of saveFromHttpToFile; and a request that acquired the lock has called
\* releaseDiskResource when it has left the guarded region.
C11_LockReleasedOnEveryExit ==
    /\ Terminated => \A s \in Slots : sem[s] >= 1
    /\ \A s \in Slots :
         sem[s] = 0 => (s = targSlot /\ cpc \in {"write", "finally"})
    /\ (/\ cpc \notin {"begin", "stage", "write", "finally"}
        /\ \E i \in DOMAIN lockLog : lockLog[i] = "acquireDiskResource")
       => lockLog[Len(lockLog)] = "releaseDiskResource"

C11_Witness ==
    /\ cpc = "failed"
    /\ stageErr = "parseError"
    /\ lockLog = << "acquireDiskResource", "releaseDiskResource" >>
    /\ sem[targSlot] = 1

\* ------------------------------------------------------ completed flag
\* the request or attempt committed every file and has left the commit phase
CArchCommitted == cpc \in {"setIdle", "reply", "notify", "done"}
MirrCommitted == mpc = "done" /\ outcome = "Success"

\* C21 as claimed: in both handlers, once the commit is complete the
\* volume's completed flag is set when the free space left is below the
\* threshold, and is as before the request when it is not.
C21_CompletedFlagFollowsFreeSpace ==
    /\ CArchCommitted =>
         ngas_disks.completed = IF lowSpace = "below" THEN 1 ELSE InitDisk.completed
    /\ MirrCommitted =>
         ngas_disks.completed = IF lowSpace = "below" THEN 1 ELSE InitDisk.completed

\* ------------------------------------------------------ volume selection
\* C22 as claimed: a call of getTargetVolume returns None when the host has
\* no volume with completed = 0, and otherwise returns a volume of the host
\* with completed = 0 that no other such volume exceeds in available space.
C22_SelectsGreatestAvailableVolume ==
    target # NotCalled =>
        IF Candidates(diskTable, HostId) = {}
        THEN target.kind = "None"
        ELSE /\ target.kind = "volume"
             /\ target.volume \in Candidates(diskTable, HostId)
             /\ \A j \in Candidates(diskTable, HostId) :
                  diskTable[j].available_mb
                      <= diskTable[target.volume].available_mb

\* ------------------------------------------------- order of catalog calls
\* the catalog calls that commit file metadata
FileCalls == {"write", "addFileToContainer", "setContainerSize", "updateDiskInfo"}

\* C23: every createContainer call of the request precedes its first File
\* Record insert and its first addFileToContainer; when the first of these
\* is made the whole tree is in the catalog, and every file-to-container
\* relation names the identity of a persisted container.
C23_TreePersistedBeforeFiles ==
    /\ \A i, j \in DOMAIN dbLog :
         (dbLog[i] = "createContainer" /\ dbLog[j] \in FileCalls) => i < j
    /\ (\E j \in DOMAIN dbLog : dbLog[j] \in FileCalls) =>
         Len(ngas_containers) = Len(reqBody.parent)
    /\ \A pair \in containerFiles :
         \E k \in DOMAIN ngas_containers :
             /\ ngas_containers[k].container_id.kind = "id"
             /\ Str(ngas_containers[k].container_id) = pair[1]

C23_Witness ==
    /\ cpc = "done"
    /\ Len(reqBody.parent) = 3
    /\ Len(ngas_containers) = 3
    /\ Cardinality(containerFiles) = 2
    /\ \E p, q \in containerFiles : p[1] # q[1]

\* the number of setContainerSize calls in the log
SizeWrites == Cardinality({ i \in DOMAIN dbLog : dbLog[i] = "setContainerSize" })

\* C24 as claimed: no container size is written before the last File Record
\* of the request, and a request that committed all its files has made one
\* setContainerSize call per touched container.
C24_OneSizeWritePerContainer ==
    /\ \A i, j \in DOMAIN dbLog :
         (dbLog[i] = "setContainerSize" /\ dbLog[j] = "write") => j < i
    /\ cpc \in {"setIdle", "reply", "notify", "done"} =>
         SizeWrites = Cardinality(DOMAIN containerSizes)

\* ----------------------------------------------------------- ingest rate
\* C25 as claimed: when the parse ended with an elapsed time of zero, then
\* once the finally clause is left saveFromHttpToFile has returned the root
\* container and the file list, and the request has not failed in
\* saveInStagingFile.
C25_RateIsZeroGuarded ==
    (stageErr = "zeroTime" /\ cpc # "finally") =>
        /\ failedAt # "saveInStagingFile"
        /\ rootContainer # 0
        /\ Len(fileDataList) = Len(reqBody.files)

\* ------------------------------------------------------ server substate
\* the request has passed checkSetState and has not left handleCmd
InFlight == cpc \notin {"begin", "done", "failed"}

\* C26 as claimed: the substate is BUSY while the request is in flight and
\* IDLE when it is not, however the request ended.
C26_SubStateTracksInFlightWork ==
    srvSubState = IF InFlight THEN "BUSY" ELSE "IDLE"

\* C27 as claimed: every call of releaseDiskResource the request makes
\* follows a call of acquireDiskResource that returned with the lock; a
\* request whose acquisition failed releases nothing.
C27_OnlyHolderReleases ==
    \A i \in DOMAIN lockLog :
        lockLog[i] = "releaseDiskResource" =>
            (i > 1 /\ lockLog[i - 1] = "acquireDiskResource")

====
